---- MODULE Spec2Model ----
(***************************************************************************)
(* gammapy/maps/base.py: the abstract map class MapBase.                   *)
(*                                                                         *)
(* An array is a record [shape, flat]: shape is the tuple of axis lengths  *)
(* and flat the values in C (row-major) storage order.  A geometry is      *)
(* represented by its shape, the only thing the claims read from it.       *)
(* Python's None is the empty tuple <<>>; a value that may be None is a    *)
(* tuple of length 0 or 1.                                                 *)
(***************************************************************************)
EXTENDS Integers, Sequences, FiniteSets

VARIABLES
    _geom,        \* self._geom: the geometry's shape
    _data,        \* self._data: the array held by the map
    _iter,        \* self._iter: None or <<cursor>>, cursor = [arr, pos]
    lastOp,       \* the operation that ran last
    lastArg,      \* its caller (a consumer) or its argument
    raised,       \* the exception it raised, "none" when it returned
    result,       \* None or <<value it returned>>
    yielded,      \* history: the elements __next__ returned since the last StopIteration
    ended,        \* history: the last __next__ call raised StopIteration
    dataAtStart,  \* history: None or <<self.data at the first __next__ of the traversal>>
    trav,         \* history: per consumer, the traversal it began with its last __iter__
    reassigned,   \* history: the data setter has accepted a replacement
    initShape,    \* history: the shape of the array given to __init__
    wcsmapHasHpxMap, \* the build: module .wcsmap binds the name HpxMap
    fills,        \* history: per pixel, the sum of the weights filled since the last set of it
    lastWrite     \* history: per pixel, the value of the last set addressed to it

vars == <<_geom, _data, _iter, lastOp, lastArg, raised, result, yielded, ended,
          dataAtStart, trav, reassigned, initShape, wcsmapHasHpxMap, fills, lastWrite>>

None == <<>>

(* ---------------------------------------------------------------- bounds *)

\* The longest axis of an array.
MaxDim == 2

\* Arrays have 0, 1 or 2 axes.
Ranks == {0, 1, 2}

\* Two arrays of one shape differ by their seed.
Seeds == {0, 1}

\* The callers that iterate over the one map.
Consumers == {"c1", "c2"}

(* ---------------------------------------------------------------- arrays *)

RECURSIVE Size(_)
Size(shape) == IF shape = <<>> THEN 1 ELSE Head(shape) * Size(Tail(shape))

RECURSIVE ShapesOfRank(_)
ShapesOfRank(r) ==
    IF r = 0 THEN {<<>>}
    ELSE {<<d>> \o s : d \in 1..MaxDim, s \in ShapesOfRank(r - 1)}

\* The shapes of arrays: axes of 1..MaxDim entries, and the empty array <<0>>.
Shapes == UNION {ShapesOfRank(r) : r \in Ranks} \cup {<<0>>}

MaxSize == LET S == {Size(s) : s \in Shapes}
           IN  CHOOSE m \in S : \A n \in S : n <= m

\* The array of a shape and a seed; no two of its values, and no value of two
\* arrays with different seeds, are equal.
ArrayOf(shape, seed) ==
    [shape |-> shape,
     flat  |-> [i \in 1..Size(shape) |-> seed * (MaxSize + 1) + i]]

Arrays == {ArrayOf(s, k) : s \in Shapes, k \in Seeds}

\* The multi-index of flat position pos (0-based) in C order, as numpy's flat
\* iterator reports it in .coords.
RECURSIVE Unravel(_, _)
Unravel(pos, shape) ==
    IF shape = <<>> THEN <<>>
    ELSE LET inner == Size(Tail(shape))
         IN  <<pos \div inner>> \o Unravel(pos % inner, Tail(shape))

\* A shape with its axes in the opposite order.
RECURSIVE Reverse(_)
Reverse(s) == IF s = <<>> THEN <<>> ELSE Append(Reverse(Tail(s)), Head(s))

(* ------------------------------------------------------------- MapBase   *)

\* __init__(geom, data): the fields are stored as given, nothing is compared.
__init__(geom, data) ==
    /\ _data = data
    /\ _geom = geom
    /\ _iter = None

\* The data setter's test, negated: the replacement has the shape of the held array.
ShapeGeomOK(val) == val.shape = _geom
ShapeOK(val) == val.shape = _data.shape

\* The array self._data holds when the setter is left, by return or by raise.
SetterStoresFirst(val) == val
SetterData(val) == IF ShapeOK(val) THEN val ELSE _data

\* The arrays callers assign to data: of the held array's shape, of the
\* geometry's shape, and of the held shape transposed, flattened and with one
\* more axis.
Replacements ==
    {ArrayOf(_data.shape, k) : k \in Seeds}
        \cup {ArrayOf(s, 0) :
                 s \in {_geom, Reverse(_data.shape), <<Size(_data.shape)>>,
                        Append(_data.shape, 1)}}

\* m.data = val
SetData(val) ==
    /\ _data' = SetterData(val)
    /\ raised' = IF ShapeOK(val) THEN "none" ELSE "Exception"
    /\ reassigned' = (reassigned \/ ShapeOK(val))
    /\ lastOp' = "setdata"
    /\ lastArg' = None
    /\ result' = None
    /\ UNCHANGED <<_geom, _iter, yielded, ended, dataAtStart, trav, initShape,
                   wcsmapHasHpxMap, fills, lastWrite>>

\* self._iter when __iter__ returns self.
IterCursorReset == None
IterCursor == _iter

\* iter(m) by consumer c: begins c's traversal.
__iter__(c) ==
    /\ _iter' = IterCursor
    /\ trav' = [trav EXCEPT ![c] =
                   [st |-> "active", excl |-> TRUE,
                    k |-> IF ended THEN 0 ELSE Len(yielded), got |-> <<>>]]
    /\ lastOp' = "iter"
    /\ lastArg' = c
    /\ raised' = "none"
    /\ result' = None
    /\ UNCHANGED <<_geom, _data, yielded, ended, dataAtStart, reassigned,
                   initShape, wcsmapHasHpxMap, fills, lastWrite>>

\* np.ndenumerate(self.data): a cursor on the array that is the data now.
NewCursor == [arr |-> _data, pos |-> 0]

\* The cursor __next__ advances: the one held, or a new one when none is held.
Cursor == IF _iter = None THEN NewCursor ELSE _iter[1]

\* next() of the ndenumerate cursor: exhausted, or (multi-index, value).
Exhausted(cur) == cur.pos >= Size(cur.arr.shape)
ElementOfData(cur) == <<Unravel(cur.pos, _data.shape), _data.flat[cur.pos + 1]>>
Element(cur) == <<Unravel(cur.pos, cur.arr.shape), cur.arr.flat[cur.pos + 1]>>

\* self._iter after the StopIteration handler.
CursorKept(cur) == <<cur>>
CursorAfterStop(cur) == None

\* history: a consumer's traversal after a __next__ call by c that returned
\* elem (<<>> when it raised StopIteration).
TravAfterNext(c, elem) ==
    [d \in Consumers |->
        IF d = c
        THEN IF trav[c].st # "active" THEN trav[c]
             ELSE IF ~trav[c].excl THEN [trav[c] EXCEPT !.st = IF elem = <<>> THEN "done" ELSE "active"]
             ELSE [trav[c] EXCEPT !.st  = IF elem = <<>> THEN "done" ELSE "active",
                                  !.got = @ \o elem]
        ELSE IF trav[d].st = "active"
             THEN [st |-> "active", excl |-> FALSE, k |-> 0, got |-> <<>>]
             ELSE trav[d]]

\* next(m) by consumer c
__next__(c) ==
    LET cur   == Cursor
        start == ended \/ dataAtStart = None
        base  == IF ended THEN <<>> ELSE yielded
    IN  /\ IF Exhausted(cur)
           THEN /\ _iter' = CursorAfterStop(cur)
                /\ raised' = "StopIteration"
                /\ result' = None
                /\ yielded' = base
                /\ ended' = TRUE
                /\ trav' = TravAfterNext(c, <<>>)
           ELSE /\ _iter' = <<[cur EXCEPT !.pos = @ + 1]>>
                /\ raised' = "none"
                /\ result' = <<Element(cur)>>
                /\ yielded' = Append(base, Element(cur))
                /\ ended' = FALSE
                /\ trav' = TravAfterNext(c, <<Element(cur)>>)
        /\ dataAtStart' = IF start THEN <<_data>> ELSE dataAtStart
        /\ lastOp' = "next"
        /\ lastArg' = c
        /\ UNCHANGED <<_geom, _data, reassigned, initShape, wcsmapHasHpxMap,
                       fills, lastWrite>>

NoTraversal == [st |-> "none", excl |-> FALSE, k |-> 0, got |-> <<>>]

\* The geometries a map of an array is built with: the array's own shape, or
\* that shape with its axes in the opposite order.
GeomsFor(data) == {data.shape, Reverse(data.shape)}

\* The state after MapBase(geom, data).
Init ==
    /\ \E data \in Arrays : \E geom \in GeomsFor(data) : __init__(geom, data)
    /\ initShape = _data.shape
    /\ lastOp = "init"
    /\ lastArg = None
    /\ raised = "none"
    /\ result = None
    /\ yielded = <<>>
    /\ ended = FALSE
    /\ dataAtStart = None
    /\ trav = [c \in Consumers |-> NoTraversal]
    /\ reassigned = FALSE
    /\ wcsmapHasHpxMap = FALSE
    /\ fills = <<>>
    /\ lastWrite = <<>>

Next ==
    \/ \E val \in Replacements : SetData(val)
    \/ \E c \in Consumers : __iter__(c)
    \/ \E c \in Consumers : __next__(c)

Spec == Init /\ [][Next]_vars

(* ------------------------------------------------------ MapBase.create   *)

\* The longest map_type string built from the alphabet and given to create.
MaxTypeLen == 3

\* A string is the tuple of its characters.
Alphabet == {"w", "c", "s", "h", "p", "x", "W", "X", "-"}

RECURSIVE StringsOfLen(_)
StringsOfLen(n) ==
    IF n = 0 THEN {<<>>}
    ELSE {Append(t, ch) : t \in StringsOfLen(n - 1), ch \in Alphabet}

\* The sparse types the docstring of create names as valid.
wcs_sparse == <<"w", "c", "s", "-", "s", "p", "a", "r", "s", "e">>
hpx_sparse == <<"h", "p", "x", "-", "s", "p", "a", "r", "s", "e">>

MapTypes == UNION {StringsOfLen(n) : n \in 0..MaxTypeLen} \cup {wcs_sparse, hpx_sparse}

\* str.lower()
LowerChar(ch) == CASE ch = "W" -> "w" [] ch = "X" -> "x" [] OTHER -> ch
Lower(t) == [i \in 1..Len(t) |-> LowerChar(t[i])]

\* needle in t
Contains(needle, t) ==
    \E i \in 0..(Len(t) - Len(needle)) :
        \A j \in 1..Len(needle) : t[i + j] = needle[j]

wcs == <<"w", "c", "s">>
hpx == <<"h", "p", "x">>

\* kwargs.setdefault('map_type', 'wcs'); kwargs is None or <<map_type>>.
SetDefault(kwargs) == IF kwargs = None THEN wcs ELSE kwargs[1]

\* The names create() can use after its two imports: both bind HpxMap, the
\* second to what .wcsmap holds under that name; nothing binds WcsMap.
BoundNames == IF wcsmapHasHpxMap THEN {"HpxMap"} ELSE {}

\* MapBase.create(**kwargs): [raised, result] of the call.
CreateOutcome(kwargs) ==
    LET map_type == SetDefault(kwargs)
    IN  IF ~wcsmapHasHpxMap
        THEN [raised |-> "ImportError", result |-> None]
        ELSE IF Contains(wcs, Lower(map_type))
        THEN IF "WcsMap" \in BoundNames
             THEN [raised |-> "none",
                   result |-> <<[callee |-> "wcsmap.WcsMap.create", map_type |-> map_type]>>]
             ELSE [raised |-> "NameError", result |-> None]
        ELSE IF Contains(hpx, Lower(map_type))
        THEN [raised |-> "none",
              result |-> <<[callee |-> "wcsmap.HpxMap.create", map_type |-> map_type]>>]
        ELSE [raised |-> "ValueError",
              result |-> <<[message |-> "Unrecognized map type: {}", arg |-> map_type]>>]

create(kwargs) ==
    /\ lastOp' = "create"
    /\ lastArg' = kwargs
    /\ raised' = CreateOutcome(kwargs).raised
    /\ result' = CreateOutcome(kwargs).result
    /\ UNCHANGED <<_geom, _data, _iter, yielded, ended, dataAtStart, trav,
                   reassigned, initShape, wcsmapHasHpxMap, fills, lastWrite>>

\* Before any call of the class method, in either build.
InitCreate ==
    /\ wcsmapHasHpxMap \in BOOLEAN
    /\ __init__(<<>>, ArrayOf(<<>>, 0))
    /\ initShape = <<>>
    /\ lastOp = "init"
    /\ lastArg = None
    /\ raised = "none"
    /\ result = None
    /\ yielded = <<>>
    /\ ended = FALSE
    /\ dataAtStart = None
    /\ trav = [c \in Consumers |-> NoTraversal]
    /\ reassigned = FALSE
    /\ fills = <<>>
    /\ lastWrite = <<>>

NextCreate ==
    \/ create(None)
    \/ \E t \in MapTypes : create(<<t>>)

SpecCreate == InitCreate /\ [][NextCreate]_vars

(* ------------------------------------- fill_by_* and set_by_* (contract) *)
(* MapBase declares the four writers abstract; their bodies are those of   *)
(* the map contract: fill adds, set overwrites, an address outside the map *)
(* is dropped, arrays of unequal length are refused.  The map here has one *)
(* axis of NPix pixels, addressed 0..NPix-1.                               *)

\* The pixels of the filled map.
NPix == 2

\* The lengths of one call's address array.
Lengths == {0, 1, 2}

\* Calls that would take a pixel beyond this value are not made.
MaxTotal == 3

\* The weights and values written.
Weights == {1, 2}

Zeros == [shape |-> <<NPix>>, flat |-> [i \in 1..NPix |-> 0]]

\* Pixel and coordinate arguments: every in-domain address and one beyond
\* each end of the axis.
Addresses == (0 - 1)..NPix

RECURSIVE TuplesOfLen(_, _)
TuplesOfLen(S, n) ==
    IF n = 0 THEN {<<>>}
    ELSE {Append(t, x) : t \in TuplesOfLen(S, n - 1), x \in S}

AddressArgs == UNION {TuplesOfLen(Addresses, n) : n \in Lengths}

\* The value arrays given with an address array of length n: every array of
\* that length, and one that is an entry longer.
ValueArgs(n) == TuplesOfLen(Weights, n) \cup {[i \in 1..(n + 1) |-> 1]}

\* The geometry's coord_to_pix: the coordinate axis runs against the pixel axis.
CoordToPix(c) == NPix - 1 - c
CoordsToPix(coords) == [i \in 1..Len(coords) |-> CoordToPix(coords[i])]

InDomain(p) == p >= 0 /\ p < NPix

\* weights=None: a unit weight for each entry.
WeightsOrOnes(pix, weights) ==
    IF weights = None THEN [i \in 1..Len(pix) |-> 1] ELSE weights[1]

\* Unbuffered addition, entry by entry: data[pix[i]] += w[i] for each i in turn.
RECURSIVE AddAt(_, _, _)
AddAt(flat, pix, w) ==
    IF pix = <<>> THEN flat
    ELSE LET p == Head(pix)
             f == IF InDomain(p) THEN [flat EXCEPT ![p + 1] = @ + Head(w)] ELSE flat
         IN  AddAt(f, Tail(pix), Tail(w))

\* Assignment, entry by entry: data[pix[i]] = vals[i] for each i in turn.
RECURSIVE AssignAt(_, _, _)
AssignAt(flat, pix, vals) ==
    IF pix = <<>> THEN flat
    ELSE LET p == Head(pix)
             f == IF InDomain(p) THEN [flat EXCEPT ![p + 1] = Head(vals)] ELSE flat
         IN  AssignAt(f, Tail(pix), Tail(vals))

\* Buffered addition, data[pix] += w on an index array: every entry adds to
\* the value the pixel had before the call, and the last one of a pixel stays.
FilledBuffered(flat, pix, w) ==
    AssignAt(flat, pix, [i \in 1..Len(pix) |->
                            IF InDomain(pix[i]) THEN flat[pix[i] + 1] + w[i] ELSE 0])

\* The data after a fill and after a set.
Filled(flat, pix, w) == AddAt(flat, pix, w)
Assigned(flat, pix, vals) == AssignAt(flat, pix, vals)

\* history: the entries of a call that address pixel p, and the sum of their weights.
EntriesAt(pix, p) == {i \in 1..Len(pix) : pix[i] = p}

RECURSIVE SumOver(_, _)
SumOver(I, w) ==
    IF I = {} THEN 0
    ELSE LET i == CHOOSE j \in I : TRUE IN w[i] + SumOver(I \ {i}, w)

Last(I) == CHOOSE i \in I : \A j \in I : j <= i

Capped(flat) == \A i \in 1..NPix : flat[i] <= MaxTotal

\* A fill call on pixel addresses; op names the method called.
Fill(op, pix, weights) ==
    LET w == WeightsOrOnes(pix, weights)
    IN  /\ lastOp' = op
        /\ lastArg' = None
        /\ result' = None
        /\ IF Len(w) # Len(pix)
           THEN /\ raised' = "ValueError"
                /\ UNCHANGED <<_data, fills, lastWrite>>
           ELSE /\ Capped(Filled(_data.flat, pix, w))
                /\ raised' = "none"
                /\ _data' = [_data EXCEPT !.flat = Filled(_data.flat, pix, w)]
                /\ fills' = [p \in 1..NPix |->
                                fills[p] + IF weights = None
                                           THEN Cardinality(EntriesAt(pix, p - 1))
                                           ELSE SumOver(EntriesAt(pix, p - 1), weights[1])]
                /\ UNCHANGED lastWrite
        /\ UNCHANGED <<_geom, _iter, yielded, ended, dataAtStart, trav,
                       reassigned, initShape, wcsmapHasHpxMap>>

\* A set call on pixel addresses.
Set(op, pix, vals) ==
    /\ lastOp' = op
    /\ lastArg' = None
    /\ result' = None
    /\ IF Len(vals) # Len(pix)
       THEN /\ raised' = "ValueError"
            /\ UNCHANGED <<_data, fills, lastWrite>>
       ELSE /\ raised' = "none"
            /\ _data' = [_data EXCEPT !.flat = Assigned(_data.flat, pix, vals)]
            /\ fills' = [p \in 1..NPix |->
                            IF EntriesAt(pix, p - 1) = {} THEN fills[p] ELSE 0]
            /\ lastWrite' = [p \in 1..NPix |->
                                IF EntriesAt(pix, p - 1) = {} THEN lastWrite[p]
                                ELSE vals[Last(EntriesAt(pix, p - 1))]]
    /\ UNCHANGED <<_geom, _iter, yielded, ended, dataAtStart, trav,
                   reassigned, initShape, wcsmapHasHpxMap>>

fill_by_pix(pix, weights) == Fill("fill_by_pix", pix, weights)

fill_by_coords(coords, weights) == Fill("fill_by_coords", CoordsToPix(coords), weights)

set_by_pix(pix, vals) == Set("set_by_pix", pix, vals)

set_by_coords(coords, vals) == Set("set_by_coords", CoordsToPix(coords), vals)

\* A map of NPix pixels initialised to zero.
InitFill ==
    /\ __init__(<<NPix>>, Zeros)
    /\ initShape = <<NPix>>
    /\ lastOp = "init"
    /\ lastArg = None
    /\ raised = "none"
    /\ result = None
    /\ yielded = <<>>
    /\ ended = FALSE
    /\ dataAtStart = None
    /\ trav = [c \in Consumers |-> NoTraversal]
    /\ reassigned = FALSE
    /\ wcsmapHasHpxMap = FALSE
    /\ fills = [p \in 1..NPix |-> 0]
    /\ lastWrite = [p \in 1..NPix |-> 0]

NextFill ==
    \/ \E pix \in AddressArgs :
          \E weights \in {None} \cup {<<w>> : w \in ValueArgs(Len(pix))} :
             fill_by_pix(pix, weights)
    \/ \E coords \in AddressArgs :
          \E weights \in {None} \cup {<<w>> : w \in ValueArgs(Len(coords))} :
             fill_by_coords(coords, weights)
    \/ \E pix \in AddressArgs : \E vals \in ValueArgs(Len(pix)) : set_by_pix(pix, vals)
    \/ \E coords \in AddressArgs : \E vals \in ValueArgs(Len(coords)) :
          set_by_coords(coords, vals)

SpecFill == InitFill /\ [][NextFill]_vars

(* ================================================================ claims *)

\* The flat offset of a multi-index in C order.
RECURSIVE Ravel(_, _)
Ravel(idx, shape) ==
    IF shape = <<>> THEN 0
    ELSE LET n == Len(shape)
         IN  Ravel(SubSeq(idx, 1, n - 1), SubSeq(shape, 1, n - 1)) * shape[n] + idx[n]

ValueAt(arr, idx) == arr.flat[Ravel(idx, arr.shape) + 1]

\* Every multi-index of a shape.
IndexSet(shape) ==
    {idx \in [1..Len(shape) -> 0..MaxDim] : \A j \in 1..Len(shape) : idx[j] < shape[j]}

\* idx comes before jdx in row-major order: at the first axis where they
\* differ, idx is the smaller.
RowMajorBefore(idx, jdx) ==
    \E j \in 1..Len(idx) :
        /\ idx[j] < jdx[j]
        /\ \A i \in 1..(j - 1) : idx[i] = jdx[i]

\* seq holds every element of arr exactly once, as (multi-index, value).
EveryElementOnce(seq, arr) ==
    /\ Len(seq) = Size(arr.shape)
    /\ \A idx \in IndexSet(arr.shape) :
          Cardinality({i \in 1..Len(seq) : seq[i] = <<idx, ValueAt(arr, idx)>>}) = 1

\* seq is part of the row-major enumeration of arr: its elements are elements
\* of arr, the first is the one after `skipped` elements, and each next
\* element is the successor of the one before it.
RowMajorRun(seq, arr, skipped) ==
    /\ skipped + Len(seq) <= Size(arr.shape)
    /\ \A i \in 1..Len(seq) :
          /\ seq[i][1] \in IndexSet(arr.shape)
          /\ seq[i][2] = ValueAt(arr, seq[i][1])
          /\ Cardinality({idx \in IndexSet(arr.shape) :
                             RowMajorBefore(idx, seq[i][1])}) = skipped + i - 1

Stopped == lastOp = "next" /\ raised = "StopIteration"

\* C1: in every state after construction and any data assignments, the shape
\* of the data is the shape of the geometry.
ShapeInvariant == _data.shape = _geom

\* C2: an assignment to data of an array whose shape differs from the held
\* array's raises and leaves the held array in place; an assignment of an
\* array of that shape returns and makes it the data.
SetterRejectsMismatch ==
    [][lastOp' = "setdata" =>
        \A val \in Replacements :
          SetData(val) =>
             IF val.shape # _data.shape
             THEN raised' = "Exception" /\ _data' = _data
             ELSE raised' = "none" /\ _data' = val]_vars

\* An assignment was refused after another had been accepted, leaving the
\* accepted array, which is not the one the map was built with.
SetterRejectsMismatchWitness ==
    /\ lastOp = "setdata"
    /\ raised = "Exception"
    /\ reassigned
    /\ _data = ArrayOf(initShape, 1)

\* C3: an assignment to data is accepted exactly when the replacement has the
\* shape of the map's geometry.
SetterValidatesAgainstGeometry ==
    [][lastOp' = "setdata" =>
        \A val \in Replacements :
          SetData(val) => (raised' = "none" <=> val.shape = _geom)]_vars

\* C4: between two StopIterations no more elements are returned than the data
\* has; a StopIteration leaves no cursor, and the elements returned since the
\* StopIteration before it (or since construction) are every element of the
\* data, each exactly once, when the data is the array it was at the first of
\* these calls.
IterationTotality ==
    /\ Len(yielded) <= Size(_data.shape)
    /\ Stopped =>
          /\ _iter = None
          /\ (dataAtStart = <<_data>> => EveryElementOnce(yielded, _data))

\* A second full traversal has ended: c1 and c2 each ran one alone from its
\* start to StopIteration, over more than one element.
IterationTotalityWitness ==
    /\ Stopped
    /\ Len(yielded) > 1
    /\ \A c \in Consumers :
          /\ trav[c].st = "done"
          /\ trav[c].excl
          /\ trav[c].k = 0
          /\ Len(trav[c].got) = Len(yielded)

\* C8: the shape of the data is the shape of the array given at construction.
DataShapeNeverChanges == _data.shape = initShape

\* A map built with a geometry of another shape, after an accepted and a
\* refused assignment and in the middle of a traversal.
DataShapeNeverChangesWitness ==
    /\ _geom # initShape
    /\ reassigned
    /\ lastOp = "setdata"
    /\ raised = "Exception"
    /\ yielded # <<>>
    /\ ~ended

\* C9: while the data has not been reassigned, the elements returned since the
\* last StopIteration, in call order and whoever called, are the first
\* elements of the row-major enumeration of the data, and all of it at a
\* StopIteration; a traversal begun by __iter__ after k elements had been
\* returned, and run alone to its StopIteration, got the elements after the
\* first k and no others.
SharedCursor ==
    ~reassigned =>
        /\ RowMajorRun(yielded, _data, 0)
        /\ (Stopped => Len(yielded) = Size(_data.shape))
        /\ \A c \in Consumers :
              (trav[c].st = "done" /\ trav[c].excl) =>
                  /\ RowMajorRun(trav[c].got, _data, trav[c].k)
                  /\ trav[c].k + Len(trav[c].got) = Size(_data.shape)

\* c1 abandoned a traversal after some but not all elements; c2 then began
\* one, ran it alone to StopIteration and got fewer elements than the data has.
SharedCursorWitness ==
    /\ ~reassigned
    /\ Stopped
    /\ lastArg = "c2"
    /\ trav["c1"].st = "active"
    /\ trav["c2"].st = "done"
    /\ trav["c2"].excl
    /\ trav["c2"].k > 0
    /\ Len(trav["c2"].got) > 0

\* C10: the elements returned since the last StopIteration are elements of
\* the array that was the data at the first of these calls, in row-major
\* order from its first element, and all of them at a StopIteration,
\* whatever has been assigned to data since.
CursorBoundToArray ==
    dataAtStart # None =>
        /\ RowMajorRun(yielded, dataAtStart[1], 0)
        /\ (Stopped => Len(yielded) = Size(dataAtStart[1].shape))

\* After an accepted assignment in the middle of a traversal, __next__
\* returned an element of the old array that the new array does not hold.
CursorBoundToArrayWitness ==
    /\ dataAtStart # None
    /\ dataAtStart # <<_data>>
    /\ lastOp = "next"
    /\ result # None
    /\ Len(yielded) > 1
    /\ result[1][2] # ValueAt(_data, result[1][1])

\* The map_type of the last create call, lowered.
CalledType == Lower(SetDefault(lastArg))

\* C5: create with a map_type that holds neither "wcs" nor "hpx" raises
\* ValueError with a message naming the map_type, and nothing else.
UnrecognizedRaisesValueError ==
    (lastOp = "create" /\ ~Contains(wcs, CalledType) /\ ~Contains(hpx, CalledType)) =>
        /\ raised = "ValueError"
        /\ result = <<[message |-> "Unrecognized map type: {}", arg |-> lastArg[1]]>>

\* C6: create with a map_type that holds "wcs" returns what WcsMap.create
\* returns for the keyword arguments, and with one that holds "hpx" (and not
\* "wcs") what HpxMap.create returns.
DispatchBySubstring ==
    lastOp = "create" =>
        /\ Contains(wcs, CalledType) =>
              /\ raised = "none"
              /\ result # None
              /\ result[1].callee = "wcsmap.WcsMap.create"
        /\ (~Contains(wcs, CalledType) /\ Contains(hpx, CalledType)) =>
              /\ raised = "none"
              /\ result # None
              /\ result[1].callee = "hpxmap.HpxMap.create"

\* C7: on a map initialised to zero, every pixel holds the value last set to
\* it (zero when none was) plus the sum of all weights filled to it since:
\* the sum of all weights addressed to it when it was never set, the last
\* value written when nothing was filled after.
FillAccumulatesSetOverwrites ==
    \A p \in 1..NPix : _data.flat[p] = lastWrite[p] + fills[p]

\* A fill call has run after weights 2 in all were filled to the first pixel,
\* which had been set to 1 before, and the other pixel holds what was filled
\* to it, never having been set.
FillAccumulatesSetOverwritesWitness ==
    /\ lastOp \in {"fill_by_pix", "fill_by_coords"}
    /\ raised = "none"
    /\ lastWrite[1] = 1
    /\ fills[1] = 2
    /\ _data.flat[1] = 3
    /\ lastWrite[2] = 0
    /\ _data.flat[2] = 2

====
